---------------------------- MODULE Spec2Model ----------------------------
(***************************************************************************)
(* A model of pydocsearch (src/pydocsearch.py): the index built from the   *)
(* genindex-all.html page of docs.python.org, the scoring and registration *)
(* of candidate links, the keyword search, and the lru_cache memoization   *)
(* of PydocIndex.load_from.                                                *)
(*                                                                         *)
(* Python strings are TLA+ strings; a character is a string of length 1.   *)
(* Floating-point scores are modelled as exact reals (see ScoreGT).        *)
(***************************************************************************)
EXTENDS Integers, Sequences, FiniteSets, TLC

(***************************************************************************)
(* Strings and the regular expressions of the source                       *)
(***************************************************************************)

Char(s, i) == SubSeq(s, i, i)

UPPER == "ABCDEFGHIJKLMNOPQRSTUVWXYZ"

LOWERCASE == "abcdefghijklmnopqrstuvwxyz"

DIGITS == "0123456789"

\* str.lower() on one character
ToLower == [c \in {Char(UPPER, i) : i \in 1..26} |->
              Char(LOWERCASE, CHOOSE i \in 1..26 : Char(UPPER, i) = c)]

\* the characters \w matches (ASCII)
WordChars == {Char(UPPER, i) : i \in 1..26} \cup {Char(LOWERCASE, i) : i \in 1..26}
             \cup {Char(DIGITS, i) : i \in 1..10} \cup {"_"}

RECURSIVE lower(_)
\* str.lower()
lower(s) ==
    IF s = "" THEN ""
    ELSE LET c == Head(s)
         IN (IF c \in DOMAIN ToLower THEN ToLower[c] ELSE c) \o lower(Tail(s))

\* the least and the greatest element of a non-empty set of integers
Least(S) == CHOOSE m \in S : \A n \in S : m <= n

Greatest(S) == CHOOSE m \in S : \A n \in S : m >= n

\* whether the literal lit occurs in s at position p
At(s, p, lit) ==
    /\ p >= 1
    /\ p + Len(lit) - 1 <= Len(s)
    /\ SubSeq(s, p, p + Len(lit) - 1) = lit

\* the first position >= p of s holding character c, or Len(s) + 1
FirstOf(s, p, c) == Least({i \in p..Len(s) : Char(s, i) = c} \cup {Len(s) + 1})

\* str.count of a single character
CountOf(s, c) == Cardinality({i \in 1..Len(s) : Char(s, i) = c})

\* The pattern with greedy groups, href="(.+#.+)">([^<]+)</a>: the longest
\* first group, then the longest second group.
AnchorMatchAt_Greedy(s, p) ==
    LET Stop(e)       == Least({i \in (e + 2)..Len(s) : Char(s, i) = "<"} \cup {Len(s) + 1})
        TextOk(e)     == Stop(e) > e + 2 /\ At(s, Stop(e), "</a>")
        Ends(h, eol)  == {e \in (h + 2)..(eol - 1) : At(s, e, "\">") /\ TextOk(e)}
        Match(q0, e)  == [found |-> TRUE,
                          link  |-> SubSeq(s, q0, e - 1),
                          text  |-> SubSeq(s, e + 2, Stop(e) - 1),
                          next  |-> Stop(e) + 4]
        Pick(q0, eol, Hashes) ==
            IF Hashes = {} THEN [found |-> FALSE]
            ELSE Match(q0, Greatest(Ends(Greatest(Hashes), eol)))
        Groups(q0, eol) ==
            Pick(q0, eol, {h \in (q0 + 1)..(eol - 1) :
                              Char(s, h) = "#" /\ Ends(h, eol) # {}})
    IN IF ~At(s, p, "href=\"") THEN [found |-> FALSE]
       ELSE Groups(p + 6, Least({i \in (p + 6)..Len(s) : Char(s, i) = "\n"}
                                  \cup {Len(s) + 1}))

\* One attempt of the pattern href="(.+?#.+?)">([^<]+)</a> at position p.
\* '.' does not match a newline, so both lazy groups stay on the line of
\* p (eol is its end); [^<]+ is greedy and can only stop at a '<', which
\* must start </a>.  Backtracking tries the shortest first group (the
\* least '#' position h), then the shortest second group (the least
\* position e of the closing quote).
AnchorMatchAt(s, p) ==
    LET Stop(e)       == FirstOf(s, e + 2, "<")
        TextOk(e)     == Stop(e) > e + 2 /\ At(s, Stop(e), "</a>")
        Ends(h, eol)  == {e \in (h + 2)..(eol - 1) : At(s, e, "\">") /\ TextOk(e)}
        Match(q0, e)  == [found |-> TRUE,
                          link  |-> SubSeq(s, q0, e - 1),
                          text  |-> SubSeq(s, e + 2, Stop(e) - 1),
                          next  |-> Stop(e) + 4]
        Pick(q0, eol, Hashes) ==
            IF Hashes = {} THEN [found |-> FALSE]
            ELSE Match(q0, Least(Ends(Least(Hashes), eol)))
        Groups(q0, eol) ==
            Pick(q0, eol, {h \in (q0 + 1)..(eol - 1) :
                              Char(s, h) = "#" /\ Ends(h, eol) # {}})
    IN IF ~At(s, p, "href=\"") THEN [found |-> FALSE]
       ELSE Groups(p + 6, FirstOf(s, p + 6, "\n"))

RECURSIVE FindAllFrom(_, _)
\* re.findall: the non-overlapping matches, left to right
FindAllFrom(s, p) ==
    LET Continue(q, m) ==
            IF m.found THEN << <<m.link, m.text>> >> \o FindAllFrom(s, m.next)
            ELSE FindAllFrom(s, q + 1)
        From(starts) ==
            IF starts = {} THEN << >>
            ELSE Continue(Least(starts), AnchorMatchAt(s, Least(starts)))
    IN From({q \in p..Len(s) : At(s, q, "href=\"")})

\* re.findall('href="(.+?#.+?)">([^<]+)</a>', genindex_text)
FindAll(genindex_text) == FindAllFrom(genindex_text, 1)

\* re.split(r'\W', anchor): every non-word character separates two chunks
SplitNonWord(anchor) ==
    LET n == Len(anchor)
        Chunks(seps) ==
            \* seps: the separator positions in order, framed by 0 and n + 1
            [i \in 1..(Len(seps) - 1) |-> SubSeq(anchor, seps[i] + 1, seps[i + 1] - 1)]
        Sorted(S) ==
            [i \in 1..Cardinality(S) |->
               CHOOSE x \in S : Cardinality({y \in S : y < x}) = i - 1]
    IN Chunks(Sorted({0, n + 1} \cup {i \in 1..n : Char(anchor, i) \notin WordChars}))

RECURSIVE JoinDot(_)
\* '.'.join(chunks)
JoinDot(chunks) ==
    IF Len(chunks) = 0 THEN ""
    ELSE IF Len(chunks) = 1 THEN chunks[1]
    ELSE chunks[1] \o "." \o JoinDot(Tail(chunks))

\* the suffixes without the whole sequence of chunks
SuffixKeys_NoFull(anchor_chunks) ==
    [i \in 1..(Len(anchor_chunks) - 1) |->
       JoinDot(SubSeq(anchor_chunks, Len(anchor_chunks) - i + 1, Len(anchor_chunks)))]

\* ['.'.join(keywords[-i-1:]) for i, keywords in
\*  enumerate([anchor_chunks] * len(anchor_chunks))]
SuffixKeys(anchor_chunks) ==
    [i \in 1..Len(anchor_chunks) |->
       JoinDot(SubSeq(anchor_chunks, Len(anchor_chunks) - i + 1, Len(anchor_chunks)))]

\* re.search(r'(\w+)\.html', s): the leftmost match.  \w+ is greedy and
\* must run up to the '.' of .html, so the match is the first run of word
\* characters that .html follows, taken from its first character.
\* group(1) is the word, group(0) the word followed by .html.
PageSearch(s) ==
    LET IsWord(i)   == Char(s, i) \in WordChars
        RunStart(r) == 1 + Greatest({0} \cup {i \in 1..r : ~IsWord(i)})
        Match(r)    == [found  |-> TRUE,
                        group1 |-> SubSeq(s, RunStart(r), r),
                        group0 |-> SubSeq(s, RunStart(r), r + 5)]
        First(ends) == IF ends = {} THEN [found |-> FALSE, group1 |-> "", group0 |-> ""]
                       ELSE Match(Least(ends))
    IN First({r \in 1..Len(s) : IsWord(r) /\ At(s, r + 1, ".html")})

(***************************************************************************)
(* PydocIndexEntry                                                         *)
(***************************************************************************)

\* PydocIndexEntry.weights, in tenths
weights ==
    [p \in {"functions.html", "glossary.html", "stdtypes.html", "string.html",
            "re.html", "datetime.html", "builtins.html", "exceptions.html",
            "datamodel.html", "operator.html"} |->
       CASE p = "functions.html"  -> 10
         [] p = "glossary.html"   -> 10
         [] p = "stdtypes.html"   -> 9
         [] p = "string.html"     -> 8
         [] p = "re.html"         -> 7
         [] p = "datetime.html"   -> 6
         [] p = "builtins.html"   -> 5
         [] p = "exceptions.html" -> 1
         [] p = "datamodel.html"  -> 8
         [] p = "operator.html"   -> 8]

\* the value of best_link before the first registration
None == "<None>"

\* PydocIndexEntry(keyword)
NewEntry(keyword) == [keyword |-> keyword, links |-> << >>, best_link |-> None]

\* page of link_weight: the first \w+\.html of the link, or ''
PageOf(doc_link) == PageSearch(doc_link).group0

\* visit_weight of link_weight: self.weights.get(page, 0)
VisitWeight(page) == IF page \in DOMAIN weights THEN weights[page] ELSE 0

\* the popularity table looked up with the link instead of its page
link_weight_ByLink(doc_link) ==
    [length |-> Len(doc_link), visit |-> VisitWeight(doc_link)]

\* link_weight: the score 1 / sqrt(length) + visit / 10, kept as the pair
\* that determines it
link_weight(doc_link) ==
    [length |-> Len(doc_link), visit |-> VisitWeight(PageOf(doc_link))]

\* 1/sqrt(a) > 1/sqrt(b) + k/10 for k >= 1, exactly:
\*   <=>  10 sqrt(b) > 10 sqrt(a) + k sqrt(a b)
\*   <=>  100 b - 100 a - k k a b > 20 k a sqrt(b)
Exceeds(a, b, k) ==
    LET Pos(M) == M > 0 /\ M * M > 400 * k * k * a * a * b
    IN Pos(100 * b - 100 * a - k * k * a * b)

\* 1/sqrt(a) >= 1/sqrt(b) + k/10 for k >= 1, exactly
Reaches(a, b, k) ==
    LET Pos(M) == M > 0 /\ M * M >= 400 * k * k * a * a * b
    IN Pos(100 * b - 100 * a - k * k * a * b)

\* The pairs <<a, p, b, q>> of link lengths up to 200 and table weights
\* whose scores are equal as reals while IEEE double addition rounds the
\* first above the second (0.2 + 0.6 > 0.1 + 0.7 and 0.1 + 0.8 > 0.2 + 0.7).
RoundedUp == {<<25, 6, 100, 7>>, <<100, 8, 25, 7>>}

\* The comparison s > t of two scores (doc_link_weight >
\* self.links[self.best_link]), for link lengths up to 200.
ScoreGT(s, t) ==
    IF <<s.length, s.visit, t.length, t.visit>> \in RoundedUp THEN TRUE
    ELSE IF <<t.length, t.visit, s.length, s.visit>> \in RoundedUp THEN FALSE
    ELSE IF s.visit = t.visit THEN s.length < t.length
    ELSE IF s.visit < t.visit THEN Exceeds(s.length, t.length, t.visit - s.visit)
    ELSE ~Reaches(t.length, s.length, s.visit - t.visit)

\* the position of doc_link in the dict self.links, or 0
LinkPos(links, doc_link) ==
    Least({i \in 1..Len(links) : links[i].link = doc_link} \cup {Len(links) + 1})
      % (Len(links) + 1)

\* self.links[doc_link]
WeightIn(links, doc_link) == links[LinkPos(links, doc_link)].weight

\* the keys of the dict self.links
LinksOf(e) == {e.links[i].link : i \in 1..Len(e.links)}

\* register with >= in place of >: the last registered of equal scores wins
register_LastWins(e, doc_link) ==
    LET Store(pos, doc_link_weight) ==
            IF pos = 0
            THEN Append(e.links, [link |-> doc_link, weight |-> doc_link_weight])
            ELSE [e.links EXCEPT ![pos].weight = doc_link_weight]
        Best(links, doc_link_weight) ==
            IF e.best_link = None THEN doc_link
            ELSE IF ~ScoreGT(WeightIn(links, e.best_link), doc_link_weight)
                 THEN doc_link
            ELSE e.best_link
        Update(links, doc_link_weight) ==
            [keyword   |-> e.keyword,
             links     |-> links,
             best_link |-> Best(links, doc_link_weight)]
        Weighted(doc_link_weight) ==
            Update(Store(LinkPos(e.links, doc_link), doc_link_weight), doc_link_weight)
    IN Weighted(link_weight(doc_link))

\* PydocIndexEntry.register: self.links is a dict, kept in the order of
\* first insertion
register(e, doc_link) ==
    LET Store(pos, doc_link_weight) ==
            IF pos = 0
            THEN Append(e.links, [link |-> doc_link, weight |-> doc_link_weight])
            ELSE [e.links EXCEPT ![pos].weight = doc_link_weight]
        Best(links, doc_link_weight) ==
            IF e.best_link = None THEN doc_link
            ELSE IF ScoreGT(doc_link_weight, WeightIn(links, e.best_link))
                 THEN doc_link
            ELSE e.best_link
        Update(links, doc_link_weight) ==
            [keyword   |-> e.keyword,
             links     |-> links,
             best_link |-> Best(links, doc_link_weight)]
        Weighted(doc_link_weight) ==
            Update(Store(LinkPos(e.links, doc_link), doc_link_weight), doc_link_weight)
    IN Weighted(link_weight(doc_link))

(***************************************************************************)
(* PydocIndex                                                              *)
(***************************************************************************)

\* PydocIndex(doc_url): self.index is a dict from keyword to entry, kept in
\* the order of first insertion
NewIndex(doc_url) == [doc_url |-> doc_url, index |-> << >>]

\* the position of keyword in the dict self.index, or 0 (KeyError)
IndexPos(index, keyword) ==
    Least({i \in 1..Len(index) : index[i].keyword = keyword} \cup {Len(index) + 1})
      % (Len(index) + 1)

\* the keys of self.index
Keys(index) == {index[i].keyword : i \in 1..Len(index)}

\* pydoc_index.get_or_create_entry(keyword).register(doc_link)
get_or_create_entry(pydoc_index, keyword, doc_link) ==
    LET At0(k, pos) ==
            IF pos = 0
            THEN Append(pydoc_index.index, register(NewEntry(k), doc_link))
            ELSE [pydoc_index.index EXCEPT ![pos] = register(@, doc_link)]
        Lowered(k) == At0(k, IndexPos(pydoc_index.index, k))
    IN [doc_url |-> pydoc_index.doc_url, index |-> Lowered(lower(keyword))]

\* The registrations one (link, text) of load_from makes, in order, as
\* pairs <<keyword, doc_link>>: link under every suffix of the anchor's
\* chunks, url under the page name, link under the text.
Registrations(link, text) ==
    LET Page(url, page_name_match) ==
            IF page_name_match.found
            THEN << <<page_name_match.group1, url>> >>
            ELSE << >>
        Chunked(url, keys) ==
            [i \in 1..Len(keys) |-> <<keys[i], link>>]
              \o Page(url, PageSearch(url))
              \o << <<text, link>> >>
        Split(hash) ==
            Chunked(SubSeq(link, 1, hash - 1),
                    SuffixKeys(SplitNonWord(SubSeq(link, hash + 1, Len(link)))))
    IN Split(FirstOf(link, 1, "#"))

RECURSIVE RegisterAll(_, _)
RegisterAll(pydoc_index, regs) ==
    IF regs = << >> THEN pydoc_index
    ELSE RegisterAll(get_or_create_entry(pydoc_index, Head(regs)[1], Head(regs)[2]),
                     Tail(regs))

RECURSIVE LoadLinks(_, _)
\* The loop over links of load_from.  url, anchor = link.split('#') raises
\* ValueError unless link holds exactly one '#'; the exception leaves the
\* function and the index built so far is dropped.
LoadLinks(pydoc_index, links) ==
    IF links = << >> THEN [raised |-> "", value |-> pydoc_index]
    ELSE IF CountOf(Head(links)[1], "#") # 1
         THEN [raised |-> "ValueError", value |-> NewIndex("")]
    ELSE LoadLinks(RegisterAll(pydoc_index, Registrations(Head(links)[1], Head(links)[2])),
                   Tail(links))

\* 'https://docs.python.org/{}/'.format(version)
DocUrl(version) == "https://docs.python.org/" \o version \o "/"

\* The body of load_from once requests.get has delivered genindex_text
ParseIndex(version, genindex_text) ==
    LoadLinks(NewIndex(DocUrl(version)), FindAll(genindex_text))

\* PydocIndex.search's override table
hardcoded == [k \in {"pip"} |-> "installing/index.html"]

\* search with the index consulted before the override table
search_IndexFirst(pydoc_index, keyword) ==
    LET Entry(pos) ==
            IF pos = 0
            THEN IF keyword \in DOMAIN hardcoded
                 THEN [raised |-> "", value |-> pydoc_index.doc_url \o hardcoded[keyword]]
                 ELSE [raised |-> "", value |-> None]
            ELSE [raised |-> "",
                  value  |-> pydoc_index.doc_url \o pydoc_index.index[pos].best_link]
    IN Entry(IndexPos(pydoc_index.index, lower(keyword)))

\* search without the except clause: the KeyError of a missing key leaves it
search_Uncaught(pydoc_index, keyword) ==
    LET Entry(pos) ==
            IF pos = 0 THEN [raised |-> "KeyError", value |-> None]
            ELSE [raised |-> "",
                  value  |-> pydoc_index.doc_url \o pydoc_index.index[pos].best_link]
    IN IF keyword \in DOMAIN hardcoded
       THEN [raised |-> "", value |-> pydoc_index.doc_url \o hardcoded[keyword]]
       ELSE Entry(IndexPos(pydoc_index.index, lower(keyword)))

\* PydocIndex.search; a missing key raises KeyError, which is caught and
\* turned into None.  best_link = None would raise TypeError in the
\* concatenation.
search(pydoc_index, keyword) ==
    LET Entry(pos) ==
            IF pos = 0 THEN [raised |-> "", value |-> None]
            ELSE IF pydoc_index.index[pos].best_link = None
                 THEN [raised |-> "TypeError", value |-> None]
            ELSE [raised |-> "",
                  value  |-> pydoc_index.doc_url \o pydoc_index.index[pos].best_link]
    IN IF keyword \in DOMAIN hardcoded
       THEN [raised |-> "", value |-> pydoc_index.doc_url \o hardcoded[keyword]]
       ELSE Entry(IndexPos(pydoc_index.index, lower(keyword)))

(***************************************************************************)
(* Inputs                                                                  *)
(***************************************************************************)

\* the most lines of the index page a fetch delivers
MaxAnchors == 2

\* the most calls of load_from in one run
MaxCalls == 3

\* lru_cache(maxsize=16)
maxsize == 16

AnchorLambda == "<a href=\"glossary.html#term-lambda\">lambda</a>"

AnchorExit == "<a href=\"library/sys.html#sys.exit\">exit</a>"

\* Lines of a genindex-all.html page: well-formed anchors, an anchor whose
\* href holds two '#', and an anchor without fragment that shares its line
\* with the next anchor.
Pieces ==
    { AnchorLambda \o "\n",
      AnchorExit \o "\n",
      "<a href=\"library/os.path.html#os.path.join\">join</a>\n",
      "<a href=\"library/stdtypes.html#str.join\">str.join</a>\n",
      "<a href=\"library/ftplib.html#ftplib.FTP.quit\">FTP.quit</a>\n",
      "<a href=\"library/venv.html#venv-pip\">pip</a>\n",
      "<a href=\"faq/general.html#what-is-c#\">C#</a>\n",
      "<a href=\"py-modindex.html\">modules</a> | " }

RECURSIVE TextsOf(_)
\* the texts of at most n pieces
TextsOf(n) ==
    IF n = 0 THEN {""}
    ELSE LET shorter == TextsOf(n - 1)
         IN shorter \cup {t \o p : t \in shorter, p \in Pieces}

\* the fixture of the end-to-end example: the two anchors, in either order,
\* on one line or on two
Fixtures ==
    { AnchorLambda \o AnchorExit, AnchorExit \o AnchorLambda,
      AnchorLambda \o "\n" \o AnchorExit \o "\n",
      AnchorExit \o "\n" \o AnchorLambda \o "\n" }

\* the texts requests.get may deliver
Markups == TextsOf(MaxAnchors) \cup Fixtures

\* the texts of the runs with concurrent callers
CacheMarkups ==
    { "", AnchorLambda \o "\n", "<a href=\"faq/general.html#what-is-c#\">C#</a>\n" }

Keywords ==
    { "lambda", "Lambda", "exit", "pip", "PIP", "join", "path.join",
      "FTP.quit", "zzz_not_a_real_keyword" }

Threads == {1, 2}

\* the links registered on the single entry of SpecEntry
DocLinks ==
    { "library/os.html#os.walk",
      "library/os.html#os.wait",
      "library/re.html#re.subn",
      "library/sys.html#sys.exit",
      "library/datetime.html#abc",
      "library/exceptions.html#exception-hierarchy-of-the-built-in-exceptions-and-their-base-classes-in-py3",
      "library/re.html#regular-expression-syntax-and-the-special-sequences-that-a-pattern-is-made-of-in-py3" }

(***************************************************************************)
(* State                                                                   *)
(***************************************************************************)

VARIABLES
    cache,          \* lru_cache of load_from: <<[key, value]>>, least recent first
    pc,             \* per thread: "idle", "fetching", "returned", "raised"
    version,        \* per thread: the argument of its call of load_from
    genindex_text,  \* per thread: the text its requests.get delivered
    result,         \* per thread: what load_from returned or raised
    answer,         \* per thread: its last PydocIndex.search on result
    fetches,        \* per version: the requests.get calls issued
    calls,          \* the calls of load_from so far
    entry           \* SpecEntry: one PydocIndexEntry

vars == <<cache, pc, version, genindex_text, result, answer, fetches, calls, entry>>

Versions == {"3.5", "3.6"}

NoText == "<no text>"

NoResult == [raised |-> "", value |-> NewIndex("")]

NoAnswer == [asked |-> FALSE, keyword |-> "", raised |-> "", value |-> None]

Init ==
    /\ cache = << >>
    /\ pc = [t \in Threads |-> "idle"]
    /\ version = [t \in Threads |-> "3.5"]
    /\ genindex_text = [t \in Threads |-> NoText]
    /\ result = [t \in Threads |-> NoResult]
    /\ answer = [t \in Threads |-> NoAnswer]
    /\ fetches = [v \in Versions |-> 0]
    /\ calls = 0
    /\ entry = NewEntry("keyword")

(***************************************************************************)
(* lru_cache                                                               *)
(***************************************************************************)

\* the position of key in the cache, or 0
CachePos(c, key) ==
    Least({i \in 1..Len(c) : c[i].key = key} \cup {Len(c) + 1}) % (Len(c) + 1)

\* the sequence c without its element at position i
Without(c, i) == SubSeq(c, 1, i - 1) \o SubSeq(c, i + 1, Len(c))

\* a hit makes the key the most recently used
CacheTouch(c, key) == Append(Without(c, CachePos(c, key)), c[CachePos(c, key)])

\* The store after the wrapped function returned: nothing when the key was
\* added meanwhile, else the insertion, evicting the least recently used
\* entry of a full cache.
CacheStore(c, key, value) ==
    IF CachePos(c, key) # 0 THEN c
    ELSE IF Len(c) >= maxsize THEN Append(Tail(c), [key |-> key, value |-> value])
    ELSE Append(c, [key |-> key, value |-> value])

(***************************************************************************)
(* Operations                                                              *)
(***************************************************************************)

\* PydocIndex.load_from(v) up to its return (a cache hit) or up to
\* requests.get, where the thread blocks (a miss)
Call(t, v) ==
    /\ pc[t] # "fetching"
    /\ calls < MaxCalls
    /\ calls' = calls + 1
    /\ version' = [version EXCEPT ![t] = v]
    /\ answer' = [answer EXCEPT ![t] = NoAnswer]
    /\ genindex_text' = [genindex_text EXCEPT ![t] = NoText]
    /\ IF CachePos(cache, v) # 0
       THEN /\ cache' = CacheTouch(cache, v)
            /\ result' = [result EXCEPT
                            ![t] = [raised |-> "",
                                    value  |-> cache[CachePos(cache, v)].value]]
            /\ pc' = [pc EXCEPT ![t] = "returned"]
            /\ UNCHANGED fetches
       ELSE /\ pc' = [pc EXCEPT ![t] = "fetching"]
            /\ result' = [result EXCEPT ![t] = NoResult]
            /\ fetches' = [fetches EXCEPT ![v] = @ + 1]
            /\ UNCHANGED cache
    /\ UNCHANGED entry

\* a failed fetch taken for an empty page: an empty index, returned and
\* stored
FetchFail_EmptyIndex(t) ==
    /\ pc[t] = "fetching"
    /\ pc' = [pc EXCEPT ![t] = "returned"]
    /\ result' = [result EXCEPT ![t] = [raised |-> "",
                                         value  |-> NewIndex(DocUrl(version[t]))]]
    /\ cache' = CacheStore(cache, version[t], NewIndex(DocUrl(version[t])))
    /\ UNCHANGED <<version, genindex_text, answer, fetches, calls, entry>>

\* requests.get raises: the exception leaves load_from and lru_cache,
\* which stores nothing
FetchFail(t) ==
    /\ pc[t] = "fetching"
    /\ pc' = [pc EXCEPT ![t] = "raised"]
    /\ result' = [result EXCEPT ![t] = [raised |-> "FetchError",
                                         value  |-> NewIndex("")]]
    /\ UNCHANGED <<cache, version, genindex_text, answer, fetches, calls, entry>>

\* requests.get delivers text: the rest of load_from, and lru_cache's store
\* of the index it returns
FetchDone(t, text) ==
    LET Return(built) ==
            /\ result' = [result EXCEPT ![t] = built]
            /\ IF built.raised # ""
               THEN /\ pc' = [pc EXCEPT ![t] = "raised"]
                    /\ UNCHANGED cache
               ELSE /\ pc' = [pc EXCEPT ![t] = "returned"]
                    /\ cache' = CacheStore(cache, version[t], built.value)
    IN /\ pc[t] = "fetching"
       /\ genindex_text' = [genindex_text EXCEPT ![t] = text]
       /\ Return(ParseIndex(version[t], text))
       /\ UNCHANGED <<version, answer, fetches, calls, entry>>

\* PydocIndex.search(keyword) on the index load_from returned
Search(t, keyword) ==
    LET Answer(found) == [asked   |-> TRUE,
                          keyword |-> keyword,
                          raised  |-> found.raised,
                          value   |-> found.value]
    IN /\ pc[t] = "returned"
       /\ answer' = [answer EXCEPT ![t] = Answer(search(result[t].value, keyword))]
       /\ UNCHANGED <<cache, pc, version, genindex_text, result, fetches, calls, entry>>

\* PydocIndexEntry.register(doc_link) on the entry
Register(doc_link) ==
    /\ entry' = register(entry, doc_link)
    /\ UNCHANGED <<cache, pc, version, genindex_text, result, answer, fetches, calls>>

\* one caller, one version
Next ==
    \/ \E t \in {1} : Call(t, "3.5")
    \/ \E t \in {1} : FetchFail(t)
    \/ \E t \in {1}, text \in Markups : FetchDone(t, text)
    \/ \E t \in {1}, keyword \in Keywords : Search(t, keyword)

Spec == Init /\ [][Next]_vars

\* concurrent callers
NextCache ==
    \/ \E t \in Threads, v \in Versions : Call(t, v)
    \/ \E t \in Threads : FetchFail(t)
    \/ \E t \in Threads, text \in CacheMarkups : FetchDone(t, text)
    \/ \E t \in Threads, keyword \in {"lambda", "pip"} : Search(t, keyword)

SpecCache == Init /\ [][NextCache]_vars

\* the registrations on one entry
NextEntry == \E doc_link \in DocLinks : Register(doc_link)

SpecEntry == Init /\ [][NextEntry]_vars

(***************************************************************************)
(* Properties                                                              *)
(***************************************************************************)

\* the index thread t holds
IndexOf(t) == result[t].value.index

\* the entry of the index under keyword (which must be a key)
EntryOf(index, keyword) == index[IndexPos(index, keyword)]

\* the base URL of thread t's call
BaseOf(t) == "https://docs.python.org/" \o version[t] \o "/"

\* whether string s ends with string suffix
EndsWith(s, suffix) ==
    Len(s) >= Len(suffix) /\ SubSeq(s, Len(s) - Len(suffix) + 1, Len(s)) = suffix

\* whether string s starts with string prefix and goes on
Extends(s, prefix) ==
    Len(s) > Len(prefix) /\ SubSeq(s, 1, Len(prefix)) = prefix

\* C1: for an index built from the fixture markup (the lambda and the exit
\* anchor), load_from returns and search("lambda") is the base URL followed
\* by glossary.html#term-lambda, search("exit") the base URL followed by
\* library/sys.html#sys.exit.
C1_FixtureLookup ==
    \A t \in Threads :
        genindex_text[t] \in Fixtures =>
            /\ pc[t] = "returned"
            /\ search(result[t].value, "lambda") =
                 [raised |-> "", value |-> BaseOf(t) \o "glossary.html#term-lambda"]
            /\ search(result[t].value, "exit") =
                 [raised |-> "", value |-> BaseOf(t) \o "library/sys.html#sys.exit"]

C1_Witness ==
    \E t \in Threads :
        /\ genindex_text[t] = AnchorLambda \o AnchorExit
        /\ answer[t].asked
        /\ answer[t].keyword = "exit"
        /\ answer[t].value = "https://docs.python.org/3.5/library/sys.html#sys.exit"

\* the fragments a.b.c of the input lines, with the keys c, b.c and a.b.c as
\* written and lower-cased
Fragments ==
    { [fragment |-> "os.path.join",
       keys     |-> {"join", "path.join", "os.path.join"},
       lowered  |-> {"join", "path.join", "os.path.join"}],
      [fragment |-> "ftplib.FTP.quit",
       keys     |-> {"quit", "FTP.quit", "ftplib.FTP.quit"},
       lowered  |-> {"quit", "ftp.quit", "ftplib.ftp.quit"}] }

\* the links load_from matched in thread t's text whose fragment is f
LinksWith(t, f) ==
    LET Among(found) == {found[i][1] : i \in 1..Len(found)}
    IN {l \in Among(FindAll(genindex_text[t])) : EndsWith(l, "#" \o f)}

\* C2 (as amended): for a fragment a.b.c of a link matched in the markup, the
\* built index holds under each of the lower-cased keys c, b.c and a.b.c an
\* entry that has this link among its candidates and whose best_link scores
\* at least as high as this link.
C2_SuffixKeys ==
    \A t \in Threads :
        (pc[t] = "returned" /\ genindex_text[t] # NoText) =>
            \A f \in Fragments : \A link \in LinksWith(t, f.fragment) :
                \A key \in f.lowered :
                    /\ key \in Keys(IndexOf(t))
                    /\ link \in LinksOf(EntryOf(IndexOf(t), key))
                    /\ ~ScoreGT(link_weight(link),
                                link_weight(EntryOf(IndexOf(t), key).best_link))

C2_Witness ==
    \E t \in Threads :
        /\ pc[t] = "returned"
        /\ "library/os.path.html#os.path.join" \in LinksWith(t, "os.path.join")
        /\ "library/stdtypes.html#str.join" \in LinksOf(EntryOf(IndexOf(t), "join"))
        /\ answer[t].asked
        /\ answer[t].keyword = "path.join"
        /\ answer[t].value = BaseOf(t) \o "library/os.path.html#os.path.join"

\* C2 as stated: search on each of the keys c, b.c and a.b.c returns the base
\* URL followed by the link of the fragment.
C2_Original ==
    \A t \in Threads :
        (pc[t] = "returned" /\ genindex_text[t] # NoText) =>
            \A f \in Fragments : \A link \in LinksWith(t, f.fragment) :
                \A key \in f.keys :
                    search(result[t].value, key).value = BaseOf(t) \o link

\* C3: search("pip") returns the base URL followed by installing/index.html,
\* whatever the index holds.
C3_PipOverride ==
    \A t \in Threads :
        (answer[t].asked /\ answer[t].keyword = "pip") =>
            /\ answer[t].raised = ""
            /\ answer[t].value = BaseOf(t) \o "installing/index.html"

C3_Witness ==
    \E t \in Threads :
        /\ answer[t].asked
        /\ answer[t].keyword = "pip"
        /\ "pip" \in Keys(IndexOf(t))
        /\ EntryOf(IndexOf(t), "pip").best_link = "library/venv.html#venv-pip"

\* C4 as stated: search(k) returns what search of k lower-cased returns.
C4_CaseInsensitive ==
    \A t \in Threads :
        answer[t].asked =>
            answer[t].value = search(result[t].value, lower(answer[t].keyword)).value

\* every entry of an index has a best_link, one of its candidates
EntriesSet(index) ==
    \A i \in 1..Len(index) :
        /\ index[i].best_link # None
        /\ index[i].best_link \in LinksOf(index[i])

\* C5 (as amended): search never raises; it returns None for a keyword that
\* is not in the override table and whose lower-cased form is not a key of
\* the index, and a URL (the base URL followed by a link) for a keyword
\* whose lower-cased form is a key; every entry of an index has a best_link.
C5_NotFound ==
    \A t \in Threads :
        /\ EntriesSet(IndexOf(t))
        /\ answer[t].asked =>
             /\ answer[t].raised = ""
             /\ (answer[t].keyword \notin DOMAIN hardcoded
                   /\ lower(answer[t].keyword) \notin Keys(IndexOf(t)))
                  => answer[t].value = None
             /\ lower(answer[t].keyword) \in Keys(IndexOf(t))
                  => (answer[t].value # None /\ Extends(answer[t].value, BaseOf(t)))

C5_Witness ==
    \E t \in Threads :
        /\ answer[t].asked
        /\ answer[t].keyword = "zzz_not_a_real_keyword"
        /\ answer[t].value = None
        /\ Len(IndexOf(t)) > 0

\* C5 as stated: None for every keyword that is neither in the override
\* table nor a key of the index.
C5_Original ==
    \A t \in Threads :
        answer[t].asked =>
            /\ answer[t].raised = ""
            /\ (answer[t].keyword \notin DOMAIN hardcoded
                  /\ answer[t].keyword \notin Keys(IndexOf(t)))
                 => answer[t].value = None
            /\ answer[t].keyword \in Keys(IndexOf(t))
                 => (answer[t].value # None /\ Extends(answer[t].value, BaseOf(t)))

\* C6: after any registrations on an entry, best_link is a candidate, no
\* candidate scores higher, and every candidate registered before it scores
\* strictly lower (it is the first registered of those with the best score).
C6_BestLink ==
    IF entry.links = << >> THEN entry.best_link = None
    ELSE /\ entry.best_link \in LinksOf(entry)
         /\ \A i \in 1..Len(entry.links) :
               ~ScoreGT(entry.links[i].weight, WeightIn(entry.links, entry.best_link))
         /\ \A i \in 1..(LinkPos(entry.links, entry.best_link) - 1) :
               ScoreGT(WeightIn(entry.links, entry.best_link), entry.links[i].weight)

C6_Witness ==
    /\ Len(entry.links) >= 3
    /\ entry.links[1].link = "library/os.html#os.walk"
    /\ entry.links[2].link = "library/os.html#os.wait"
    /\ entry.best_link = "library/os.html#os.walk"

\* C7 as stated: whatever text the fetch delivers, load_from returns an
\* index.
C7_BuildNeverFails ==
    \A t \in Threads :
        genindex_text[t] # NoText => (pc[t] = "returned" /\ result[t].raised = "")

\* C8: of two links of equal length, one with a page of the popularity table
\* and one with a page outside it (or none), the first scores strictly
\* higher.
C8_TablePageWins ==
    \A i, j \in 1..Len(entry.links) :
        (/\ Len(entry.links[i].link) = Len(entry.links[j].link)
         /\ PageOf(entry.links[i].link) \in DOMAIN weights
         /\ PageOf(entry.links[j].link) \notin DOMAIN weights)
        => ScoreGT(entry.links[i].weight, entry.links[j].weight)

C8_Witness ==
    /\ "library/re.html#re.subn" \in LinksOf(entry)
    /\ "library/os.html#os.wait" \in LinksOf(entry)
    /\ entry.best_link = "library/re.html#re.subn"

\* C9 as stated: no two callers fetch the index page of one version at the
\* same time.
C9_NoDuplicateFetch ==
    \A t1, t2 \in Threads :
        (t1 # t2 /\ pc[t1] = "fetching" /\ pc[t2] = "fetching")
            => version[t1] # version[t2]

\* every link matched in text is a candidate of the entry of its text
Complete(pydoc_index, text) ==
    LET All(found) ==
            \A i \in 1..Len(found) :
                /\ lower(found[i][2]) \in Keys(pydoc_index.index)
                /\ found[i][1] \in
                     LinksOf(EntryOf(pydoc_index.index, lower(found[i][2])))
    IN All(FindAll(text))

\* C10: a fetch that fails makes load_from raise the fetch error, with no
\* further fetch and the cache untouched; a caller that was returned an
\* index built from a text holds the index of all the links of the text.
C10_AllOrNothing ==
    /\ [] (\A t \in Threads :
             /\ (pc[t] = "returned" /\ genindex_text[t] # NoText)
                  => Complete(result[t].value, genindex_text[t])
             /\ pc[t] = "raised" => Len(result[t].value.index) = 0)
    /\ [][\A t \in Threads :
            (pc[t] = "fetching" /\ pc'[t] # "fetching" /\ genindex_text'[t] = NoText)
              => /\ pc'[t] = "raised"
                 /\ result'[t].raised = "FetchError"
                 /\ cache' = cache
                 /\ fetches' = fetches]_vars

C10_Witness ==
    \E t \in Threads :
        /\ pc[t] = "raised"
        /\ result[t].raised = "FetchError"
        /\ CachePos(cache, version[t]) = 0
        /\ fetches[version[t]] = 1

=============================================================================
